---- MODULE Spec2Model ----
(* A state-machine model of evilclone.py (the install workflow) and            *)
(* set-version.py (the standalone default promotion).  The world that          *)
(* persists between invocations is the set of pyenv environments and the file  *)
(* system; one invocation runs at a time and is followed step by step, one     *)
(* action per external command or per block of prompts and file operations.    *)
EXTENDS Naturals, Sequences, FiniteSets, TLC

VARIABLES
    envs,         \* virtual environments pyenv knows (pyenv versions)
    boot,         \* the environments pip, setuptools and wheel were upgraded in
    fs,           \* file system: absolute path -> [kind, data]
    cwd,          \* the process's working directory (os.chdir)
    pc,           \* position of the running invocation
    runs,         \* invocations started so far
    clone,        \* --clone
    yes,          \* --yes
    product,      \* PRODUCT argument, then the normalised repository URL
    branch,       \* --branch
    tag,          \* --tag
    name,         \* product name after the "Product name" prompt
    environment,  \* -e, then the environment create_environment returns
    repo_path,    \* what clone_repo returned
    modulepath,   \* the descriptor path in create_modulefile / set_version
    dest,         \* the default link path being replaced
    log           \* this invocation's external commands, yes/no answers, writes

world == <<envs, fs, boot>>
args  == <<clone, yes, branch, tag>>
vars  == <<envs, fs, boot, cwd, pc, runs, clone, yes, product, branch, tag, name,
           environment, repo_path, modulepath, dest, log>>

-----------------------------------------------------------------------------
(* Bounds of the model.                                                        *)

MaxRuns == 2

-----------------------------------------------------------------------------
(* Python values and string functions.                                         *)

None == "<None>"

Ch(s, i) == SubSeq(s, i, i)

StartsWith(s, p) == Len(s) >= Len(p) /\ SubSeq(s, 1, Len(p)) = p

EndsWith(s, p) == Len(s) >= Len(p) /\ SubSeq(s, Len(s) - Len(p) + 1, Len(s)) = p

\* sub in s
Contains(sub, s) ==
    \E i \in 1..(Len(s) - Len(sub) + 1) : SubSeq(s, i, i + Len(sub) - 1) = sub

\* s.find(sub) + 1, or 0 when sub does not occur
IndexOf(sub, s) ==
    IF Contains(sub, s)
    THEN CHOOSE i \in 1..(Len(s) - Len(sub) + 1) :
            /\ SubSeq(s, i, i + Len(sub) - 1) = sub
            /\ \A j \in 1..(i - 1) : SubSeq(s, j, j + Len(sub) - 1) # sub
    ELSE 0

\* position of the last "/" of s, 0 when there is none
LastSlash(s) ==
    IF \E i \in 1..Len(s) : Ch(s, i) = "/"
    THEN CHOOSE i \in 1..Len(s) :
            Ch(s, i) = "/" /\ \A j \in (i + 1)..Len(s) : Ch(s, j) # "/"
    ELSE 0

\* s.split("/")[-1]
LastSegment(s) == SubSeq(s, LastSlash(s) + 1, Len(s))

RECURSIVE Replace(_, _, _)
\* s.replace(a, b) for a single character a
Replace(s, a, b) ==
    IF s = "" THEN ""
    ELSE (IF Ch(s, 1) = a THEN b ELSE Ch(s, 1)) \o Replace(SubSeq(s, 2, Len(s)), a, b)

Lower == "abcdefghijklmnopqrstuvwxyz"
UpperCase == "ABCDEFGHIJKLMNOPQRSTUVWXYZ"

UpperChar(c) ==
    IF Contains(c, Lower) THEN Ch(UpperCase, IndexOf(c, Lower)) ELSE c

RECURSIVE Upper(_)
\* s.upper()
Upper(s) ==
    IF s = "" THEN "" ELSE UpperChar(Ch(s, 1)) \o Upper(SubSeq(s, 2, Len(s)))

IsSpace(c) == c \in {" ", "\t", "\n"}

RECURSIVE LStrip(_)
LStrip(s) ==
    IF s # "" /\ IsSpace(Ch(s, 1)) THEN LStrip(SubSeq(s, 2, Len(s))) ELSE s

RECURSIVE RStrip(_)
RStrip(s) ==
    IF s # "" /\ IsSpace(Ch(s, Len(s))) THEN RStrip(SubSeq(s, 1, Len(s) - 1)) ELSE s

\* s.strip()
Strip(s) == RStrip(LStrip(s))

RECURSIVE SplitOn(_, _, _)
\* the pieces of s between the characters of seps; cur is the piece being read
SplitOn(s, seps, cur) ==
    IF s = "" THEN <<cur>>
    ELSE IF Ch(s, 1) \in seps
         THEN <<cur>> \o SplitOn(SubSeq(s, 2, Len(s)), seps, "")
         ELSE SplitOn(SubSeq(s, 2, Len(s)), seps, cur \o Ch(s, 1))

\* s.split(): the non-empty whitespace-separated words of s
Split(s) == SelectSeq(SplitOn(s, {" ", "\t", "\n"}, ""), LAMBDA w : w # "")

\* s.splitlines() for text whose lines end in "\n"
SplitLines(s) ==
    LET nl      == {i \in 1..Len(s) : Ch(s, i) = "\n"}
        nth(k)  == CHOOSE i \in nl : Cardinality({j \in nl : j < i}) = k - 1
        n       == IF s = "" \/ Ch(s, Len(s)) = "\n"
                   THEN Cardinality(nl) ELSE Cardinality(nl) + 1
        from(k) == IF k = 1 THEN 1 ELSE nth(k - 1) + 1
        to(k)   == IF k <= Cardinality(nl) THEN nth(k) - 1 ELSE Len(s)
    IN  [k \in 1..n |-> SubSeq(s, from(k), to(k))]

RECURSIVE Join(_, _)
\* sep.join(lines)
Join(lines, sep) ==
    IF Len(lines) = 0 THEN ""
    ELSE IF Len(lines) = 1 THEN lines[1]
    ELSE lines[1] \o sep \o Join(Tail(lines), sep)

-----------------------------------------------------------------------------
(* os.path                                                                     *)

\* os.path.join(a, b)
PathJoin(a, b) ==
    IF StartsWith(b, "/") THEN b
    ELSE IF a = "" \/ EndsWith(a, "/") THEN a \o b
    ELSE a \o "/" \o b

RECURSIVE StripSlashes(_)
StripSlashes(s) ==
    IF s # "" /\ Ch(s, Len(s)) = "/" THEN StripSlashes(SubSeq(s, 1, Len(s) - 1)) ELSE s

\* os.path.dirname(p)
DirName(p) ==
    LET head == SubSeq(p, 1, LastSlash(p))
    IN  IF StripSlashes(head) = "" THEN head ELSE StripSlashes(head)

\* the absolute path a relative or absolute path names, seen from directory d
AbsFrom(d, p) == StripSlashes(PathJoin(d, p))

-----------------------------------------------------------------------------
(* The file system.  fs maps an absolute path to [kind, data]: a directory, a  *)
(* regular file with its text, or a symbolic link with its target as written.  *)

Dir == [kind |-> "dir", data |-> ""]
File(text) == [kind |-> "file", data |-> text]
Link(target) == [kind |-> "link", data |-> target]

\* os.path.lexists: the path names something, a dangling link included
LExists(f, p) == p \in DOMAIN f

RECURSIVE Follow(_, _, _)
\* the path reached from p through symbolic links; "" on a loop of links
Follow(f, p, seen) ==
    IF p \in seen THEN ""
    ELSE IF p \in DOMAIN f /\ f[p].kind = "link"
         THEN Follow(f, AbsFrom(DirName(p), f[p].data), seen \cup {p})
         ELSE p

\* os.path.exists(p): follows links, False for a dangling link
PathExists(f, p) == Follow(f, p, {}) \in DOMAIN f

\* p and the directories above it
Ancestors(p) ==
    {p} \cup {SubSeq(p, 1, i - 1) : i \in {j \in 2..Len(p) : Ch(p, j) = "/"}}

\* os.makedirs(d, exist_ok=True)
MakeDirs(f, d) ==
    [q \in DOMAIN f \cup Ancestors(d) |-> IF q \in DOMAIN f THEN f[q] ELSE Dir]

\* what an os.makedirs(d, exist_ok=True) call raises on
MakeDirsFails(f, d) == \E q \in Ancestors(d) : q \in DOMAIN f /\ f[q].kind # "dir"

\* open(p, "w").write(text): written through a link, creating its target
WriteFile(f, p, text) ==
    LET q == Follow(f, p, {})
    IN  [r \in DOMAIN f \cup {q} |-> IF r = q THEN File(text) ELSE f[r]]

\* what open(p, "w") raises on: a loop of links, a directory, no parent directory
WriteFails(f, p) ==
    LET q == Follow(f, p, {})
    IN  \/ q = ""
        \/ (q \in DOMAIN f /\ f[q].kind = "dir")
        \/ ~(DirName(q) \in DOMAIN f /\ f[DirName(q)].kind = "dir")

\* an unlink or rmtree that removes nothing
RemoveNothing(f, p) == f

\* os.unlink(p), shutil.rmtree(p): p and everything below it
Remove(f, p) ==
    [q \in {r \in DOMAIN f : r # p /\ ~StartsWith(r, p \o "/")} |-> f[q]]

-----------------------------------------------------------------------------
(* The invocation's log.                                                       *)

Cmd(step, what, ok)    == [kind |-> "cmd",   step |-> step, what |-> what, ok |-> ok]
Asked(step, what, ans) == [kind |-> "yn",    step |-> step, what |-> what, ok |-> ans]
Wrote(step, what)      == [kind |-> "fs",    step |-> step, what |-> what, ok |-> TRUE]
Failed(step, what)     == [kind |-> "fail",  step |-> step, what |-> what, ok |-> FALSE]
Raised(step, what)     == [kind |-> "raise", step |-> step, what |-> what, ok |-> FALSE]
\* what a command printed
Output(step, text) == [kind |-> "stdout", step |-> step, what |-> text, ok |-> TRUE]
\* what a function returned to evilclone()
Result(step, what, value) == [kind |-> "return", step |-> step, what |-> what, ok |-> value]
\* the text typed at a prompt; kind names the prompt
Typed(step, kind, text) == [kind |-> kind, step |-> step, what |-> text, ok |-> TRUE]

\* run() with the return code ignored
RunFailsIgnored(ok) == FALSE

\* run(): a non-zero return code calls fail()
RunFails(ok) == ~ok

\* the first command of a block that fail()s, 0 when the block runs through
StopAt(oks) ==
    IF \E i \in 1..Len(oks) : RunFails(oks[i])
    THEN CHOOSE i \in 1..Len(oks) :
            RunFails(oks[i]) /\ \A j \in 1..(i - 1) : ~RunFails(oks[j])
    ELSE 0

\* the commands of a block that are issued, given each one's exit status
Issued(step, cmds, oks) ==
    LET n == IF StopAt(oks) = 0 THEN Len(cmds) ELSE StopAt(oks)
    IN  [i \in 1..n |-> Cmd(step, cmds[i], oks[i])]

\* yn(msg, yes=yes): yes-mode answers for the operator
yn(ans, y) == IF y THEN TRUE ELSE ans

\* the log entry of a yn call: nothing is asked in yes-mode
YnLog(step, msg, ans, y) == IF y THEN <<>> ELSE <<Asked(step, msg, ans)>>

-----------------------------------------------------------------------------
(* Program constants and the inputs an invocation draws from.                  *)

PRODUCT_DIR == "/home/sdss5/software/"
MODULEFILES == "/home/sdss5/software/modulefiles"

\* the directory the operator starts the tools in
Cwd0 == "/home/sdss5/software/modulefiles"

\* the version `pyenv global` reports, the default of the "Base version" prompt
PyenvGlobal == "3.9"

RepoProducts    == {"o/w", "http://o/w"}
PackageProducts == {"w==1", "w", "w>="}
\* (--branch, --tag): the default branch, a branch, a tag of the same name
BranchTags      == {<<"main", None>>, <<"v1", None>>, <<"main", "v1">>}
EnvOptions      == {None}
\* what the operator types at a prompt instead of accepting its default
NameAnswers        == {"ww"}
EnvAnswers         == {}
ClonePathAnswers   == {}
ModulePathAnswers  == {"w/2.lua"}
\* the answers to the dependency, PYTHONPATH and PATH prompts of one descriptor:
\* "n" declines the prompt, "default" accepts the default offered, "repo" types
\* the repository path
ModuleAnswers      == {<<"", "n", "n">>, <<"a b", "default", "repo">>,
                       <<"a b", "repo", "default">>, <<"a b", "repo", "repo">>}
\* set-version's arguments: PRODUCT [VERSION]
SetVersionArgs     == {<<"w", None>>, <<"w", "1">>, <<"w/main", None>>}
\* what the cloned remote holds besides its history
RemoteFiles        == {{}, {"setup.py"}, {"pyproject.toml", "setup.py"}}
\* the first line `git status --branch --porcelain` prints in a fresh clone
StatusOutputs      == {"## main...origin/main\n", "## HEAD (no branch)\n"}

\* the command lines and name answers that are tried together: the name is
\* overridden, and an ill-formed product given, on a plain command line only
\* (no --yes, the default branch)
Tried(c, y, nm, p, bt) ==
    (nm # None \/ p \in {"http://o/w", "w", "w>="}) => (~y /\ bt = <<"main", None>>)

-----------------------------------------------------------------------------
(* Pure helpers of evilclone.py.                                               *)

RECURSIVE Span(_, _)
\* how many leading characters of s belong to the class cls
Span(s, cls) ==
    IF s # "" /\ Contains(Ch(s, 1), cls) THEN 1 + Span(SubSeq(s, 2, Len(s)), cls) ELSE 0

NameChars == Lower \o UpperCase \o "0123456789_-"

\* re.match(r"([a-zA-Z0-9_-]+)[><=~!]*([0-9.]*)", product) and the assert on it
get_product_parts(p) ==
    LET n    == Span(p, NameChars)
        r1   == SubSeq(p, n + 1, Len(p))
        r2   == SubSeq(r1, Span(r1, "><=~!") + 1, Len(r1))
        v    == SubSeq(r2, 1, Span(r2, "0123456789."))
    IN  [ok |-> n >= 1 /\ v # "", name |-> SubSeq(p, 1, n), version |-> v]

\* get_name before its prompt: the default product name
DefaultName(p, is_repo) ==
    IF ~is_repo THEN get_product_parts(p).name ELSE LastSegment(p)

\* get_repo_path letting every remote through
RepoPathFailsNever(p) == FALSE

\* get_repo_path: fail() on an http remote
RepoPathFails(p) == StartsWith(p, "http")

\* get_repo_path: the normalised remote
get_repo_path(p) == IF ~StartsWith(p, "git@") THEN "git@github.com:" \o p ELSE p

\* create_environment naming a package's environment after the name alone
DefaultEnvironmentNameOnly(env, p, is_repo, br, tg, nm) ==
    LET b == IF tg # None THEN tg ELSE br
    IN  IF env # None THEN env
        ELSE IF is_repo THEN LastSegment(p) \o "-" \o Replace(b, "/", "_")
        ELSE IF nm # None /\ nm # "" THEN nm ELSE get_product_parts(p).name

\* create_environment: the default offered at the "Environment name" prompt
DefaultEnvironment(env, p, is_repo, br, tg, nm) ==
    LET b == IF tg # None THEN tg ELSE br
    IN  IF env # None THEN env
        ELSE IF is_repo THEN LastSegment(p) \o "-" \o Replace(b, "/", "_")
        ELSE LET parts == get_product_parts(p)
                 n     == IF nm # None /\ nm # "" THEN nm ELSE parts.name
             IN  IF parts.version # "" THEN n \o "-" \o parts.version ELSE None

\* the stripped lines of `pyenv versions --bare`
PyenvVersions(es) == {PyenvGlobal} \cup es \cup {PyenvGlobal \o "/envs/" \o e : e \in es}

\* the lines of `pyenv versions --bare --skip-aliases`
PyenvVersionsSkipAliases(es) == {PyenvGlobal} \cup {PyenvGlobal \o "/envs/" \o e : e \in es}

\* os.environ["PYENV_ROOT"]
PYENV_ROOT == "/home/sdss5/.pyenv"

\* the environment names of the model in the order pyenv lists them (sorted)
EnvOrder == <<"w-1", "w-main", "w-v1", "ww-1">>

\* the lines of `pyenv versions --bare --skip-aliases`, in the order printed
SkipAliasesLines(es) ==
    <<PyenvGlobal>>
    \o [i \in 1..Len(SelectSeq(EnvOrder, LAMBDA e : e \in es)) |->
            PyenvGlobal \o "/envs/" \o SelectSeq(EnvOrder, LAMBDA e : e \in es)[i]]

\* get_env_path: the path of the last listed version that contains the name,
\* None when there is none
get_env_path(es, env) ==
    LET lines == SkipAliasesLines(es)
        hits  == {i \in DOMAIN lines : Contains(env, lines[i])}
    IN  IF hits = {} THEN None
        ELSE PathJoin(PathJoin(PYENV_ROOT, "versions"),
                      lines[CHOOSE i \in hits : \A j \in hits : j <= i])

\* get_env_path: fail("Cannot find environment.") when no version contains the name
EnvPathFails(es, env) == ~\E v \in PyenvVersionsSkipAliases(es) : Contains(env, v)

-----------------------------------------------------------------------------
(* The initial state: nothing installed, no invocation started.                *)

Init ==
    /\ envs = {}
    /\ boot = {}
    /\ fs = [q \in Ancestors(MODULEFILES) |-> Dir]
    /\ cwd = Cwd0
    /\ pc = "idle"
    /\ runs = 0
    /\ clone = FALSE
    /\ yes = FALSE
    /\ product = None
    /\ branch = "main"
    /\ tag = None
    /\ name = None
    /\ environment = None
    /\ repo_path = None
    /\ modulepath = None
    /\ dest = None
    /\ log = <<>>

Stopped == pc \in {"idle", "done", "aborted"}

\* fail() and uncaught exceptions: the invocation ends, the world stays as it is
Abort(events) ==
    /\ pc' = "aborted"
    /\ log' = log \o events

-----------------------------------------------------------------------------
(* evilclone(): options, get_name, get_repo_path.                              *)

Evilclone ==
    /\ Stopped
    /\ runs < MaxRuns
    /\ \E c \in BOOLEAN, y \in BOOLEAN, e \in EnvOptions,
          nm \in NameAnswers \cup {None} :
       \E p \in (IF c THEN RepoProducts ELSE PackageProducts),
          bt \in (IF c THEN BranchTags ELSE {<<"main", None>>}) :
        /\ Tried(c, y, nm, p, bt)
        /\ runs' = runs + 1
        /\ clone' = c /\ yes' = y /\ branch' = bt[1] /\ tag' = bt[2]
        /\ environment' = e
        /\ cwd' = Cwd0
        /\ repo_path' = None /\ modulepath' = None /\ dest' = None
        /\ UNCHANGED world
        /\ IF ~c /\ ~get_product_parts(p).ok
           THEN /\ pc' = "aborted"
                /\ log' = <<Raised("name", "AssertionError")>>
                /\ name' = None /\ product' = p
           ELSE /\ name' = (IF nm = None THEN DefaultName(p, c) ELSE nm)
                /\ IF c /\ RepoPathFails(p)
                   THEN /\ pc' = "aborted"
                        /\ log' = <<Failed("name", "Repositories must use git@github.com paths.")>>
                        /\ product' = p
                   ELSE /\ pc' = "create_environment"
                        /\ log' = <<>>
                        /\ product' = (IF c THEN get_repo_path(p) ELSE p)

-----------------------------------------------------------------------------
(* create_environment                                                          *)

\* create_environment looking the name up among the unaliased versions
EnvironmentKnownUnaliased(es, env) == env \in PyenvVersionsSkipAliases(es)

\* create_environment: whether the environment is already in pyenv's list
EnvironmentKnown(es, env) == env \in PyenvVersions(es)

\* evilclone() going from the environment straight to the descriptor
AfterEnvironmentSkipsInstall == "create_modulefile"

\* evilclone(): what follows create_environment
AfterEnvironment == IF clone THEN "clone_repo" ELSE "pip_install"

CreateEnvironment ==
    /\ pc = "create_environment"
    /\ \E typed \in EnvAnswers \cup {None}, oks \in [1..2 -> BOOLEAN], ans \in BOOLEAN :
        LET dflt == DefaultEnvironment(environment, product, clone, branch, tag, name)
            env  == IF typed = None THEN dflt ELSE typed
            cmds == <<"pyenv versions --bare", "pyenv global">>
            useq == "Environment already exists. Use it?"
        IN  /\ env # None
            /\ environment' = env
            /\ UNCHANGED <<world, cwd, runs, args, product, name, repo_path, modulepath, dest>>
            /\ IF env = ""
               THEN Abort(<<Failed("env", "")>>)
               ELSE IF StopAt(oks) # 0
               THEN Abort(Issued("env", cmds, oks))
               ELSE IF EnvironmentKnown(envs, env)
               THEN IF yn(ans, yes)
                    THEN /\ pc' = AfterEnvironment
                         /\ log' = log \o Issued("env", cmds, oks) \o YnLog("env", useq, ans, yes)
                    ELSE Abort(Issued("env", cmds, oks) \o YnLog("env", useq, ans, yes)
                               \o <<Failed("env", "")>>)
               ELSE /\ pc' = "virtualenv"
                    /\ log' = log \o Issued("env", cmds, oks)

\* run(f"pyenv virtualenv {base_version} {environment}")
Virtualenv ==
    /\ pc = "virtualenv"
    /\ \E ok \in BOOLEAN :
        /\ UNCHANGED <<fs, boot, cwd, runs, args, product, name, environment, repo_path,
                       modulepath, dest>>
        /\ IF StopAt(<<ok>>) # 0
           THEN Abort(Issued("env", <<"pyenv virtualenv">>, <<ok>>)) /\ UNCHANGED envs
           ELSE /\ envs' = (IF ok THEN envs \cup {environment} ELSE envs)
                /\ pc' = "bootstrap"
                /\ log' = log \o Issued("env", <<"pyenv virtualenv">>, <<ok>>)

\* run_with_pyenv(command, environment): get_env_path, then the command itself
\* the log entries of one run_with_pyenv call
PyenvIssued(step, command, env, oks) ==
    IF StopAt(<<oks[1]>>) # 0 THEN Issued(step, <<"pyenv versions --bare --skip-aliases">>, <<oks[1]>>)
    ELSE IF EnvPathFails(envs, env)
    THEN Issued(step, <<"pyenv versions --bare --skip-aliases">>, <<oks[1]>>)
         \o <<Failed(step, "Cannot find environment.")>>
    ELSE Issued(step, <<"pyenv versions --bare --skip-aliases">>, <<oks[1]>>)
         \o <<Typed(step, "VIRTUAL_ENV", get_env_path(envs, env))>>
         \o Issued(step, <<command>>, <<oks[2]>>)

\* whether a run_with_pyenv call ends in fail()
PyenvFails(env, oks) == StopAt(oks) # 0 \/ EnvPathFails(envs, env)

\* a bootstrap that is never recorded as done
BootstrappedNever(b, env) == b

\* what a successful `pip install -U pip setuptools wheel` leaves: the
\* environment holds the upgraded packaging tools
Bootstrapped(b, env) == b \cup {env}

\* run_with_pyenv("pip install -U pip setuptools wheel", environment)
Bootstrap ==
    /\ pc = "bootstrap"
    /\ \E oks \in [1..2 -> BOOLEAN] :
        /\ UNCHANGED <<envs, fs, cwd, runs, args, product, name, environment, repo_path,
                       modulepath, dest>>
        /\ IF PyenvFails(environment, oks)
           THEN /\ Abort(PyenvIssued("env", "pip install -U pip setuptools wheel",
                                     environment, oks))
                /\ UNCHANGED boot
           ELSE /\ boot' = Bootstrapped(boot, environment)
                /\ pc' = AfterEnvironment
                /\ log' = log \o PyenvIssued("env", "pip install -U pip setuptools wheel",
                                             environment, oks)

-----------------------------------------------------------------------------
(* clone_repo                                                                  *)

\* clone_repo: the branch-or-tag name the clone is made for
BranchOrTag(br, tg) == IF tg # None THEN tg ELSE br

\* clone_repo: default_path
DefaultClonePath(url, product_dir, br, tg) ==
    PathJoin(PathJoin(product_dir, LastSegment(url)), Replace(BranchOrTag(br, tg), "/", "_"))

\* clone_repo passing yes=yes to the reuse prompt
ReuseAnswerYesMode(ans, y) == yn(ans, y)

\* clone_repo: the answer that decides the reuse of an existing path; the call
\* passes no yes= to yn, so the operator is asked in yes-mode too
ReuseAnswer(ans, y) == yn(ans, FALSE)

\* clone_repo: the existence check guarding the clone
ClonePathTaken(f, d, path) == PathExists(f, AbsFrom(d, path))

\* clone_repo up to the clone: the path, and the reuse of an existing one
CloneRepo ==
    /\ pc = "clone_repo"
    /\ \E typed \in (IF yes THEN {None} ELSE ClonePathAnswers \cup {None}), ans \in BOOLEAN :
        LET dflt == DefaultClonePath(product, PRODUCT_DIR, branch, tag)
            path == IF typed = None THEN dflt ELSE typed
            useq == "Path already exists. Use it?"
        IN  /\ repo_path' = path
            /\ UNCHANGED <<world, cwd, runs, args, product, name, environment, modulepath, dest>>
            /\ IF ClonePathTaken(fs, cwd, path)
               THEN IF ReuseAnswer(ans, yes)
                    THEN /\ pc' = "install_repo"
                         /\ log' = log \o <<Asked("clone", useq, ans)>>
                    ELSE Abort(<<Asked("clone", useq, ans), Failed("clone", "")>>)
               ELSE /\ pc' = "git_clone"
                    /\ log' = log

\* what `git clone` leaves at path p: the working copy with its .git
Cloned(f, p, files) ==
    LET made == Ancestors(p) \cup {p \o "/.git"} \cup {p \o "/" \o x : x \in files}
    IN  [q \in DOMAIN f \cup made |->
            IF q \in DOMAIN f THEN f[q]
            ELSE IF q \in Ancestors(p) \/ q = p \o "/.git" THEN Dir
            ELSE File("")]

\* run(f"git clone {repo_url} {path}"); os.chdir(path)
GitClone ==
    /\ pc = "git_clone"
    /\ \E ok \in BOOLEAN, files \in RemoteFiles :
        LET p    == AbsFrom(cwd, repo_path)
            done == ok /\ ~LExists(fs, p)
            f2   == IF done THEN Cloned(fs, p, files) ELSE fs
        IN  /\ UNCHANGED <<envs, boot, runs, args, product, name, environment, repo_path,
                           modulepath, dest>>
            /\ IF StopAt(<<done>>) # 0
               THEN /\ Abort(Issued("clone", <<"git clone">>, <<done>>))
                    /\ UNCHANGED <<fs, cwd>>
               ELSE IF ~(p \in DOMAIN f2 /\ f2[p].kind = "dir")
               THEN /\ Abort(Issued("clone", <<"git clone">>, <<done>>)
                             \o <<Raised("clone", "FileNotFoundError")>>)
                    /\ UNCHANGED <<fs, cwd>>
               ELSE /\ fs' = f2
                    /\ cwd' = p
                    /\ pc' = "git_checkout"
                    /\ log' = log \o Issued("clone", <<"git clone">>, <<done>>)

\* the first line of a text
FirstLine(s) == IF Contains("\n", s) THEN SubSeq(s, 1, IndexOf("\n", s) - 1) ELSE s

\* where the group of r"## (.+)\.\.\..+" ends in line l: the last "..." that
\* leaves a character on both sides, 0 when the line does not match
BranchEnd(l) ==
    LET ok(i) == SubSeq(l, i, i + 2) = "..."
        at    == {i \in 5..(Len(l) - 3) : ok(i)}
    IN  IF StartsWith(l, "## ") /\ at # {}
        THEN (CHOOSE i \in at : \A j \in at : j <= i) - 1
        ELSE 0

\* re.match(r"## (.+)\.\.\..+", branch_output): the branch, None when no match
CurrentBranch(out) ==
    LET l == FirstLine(out)
    IN  IF BranchEnd(l) = 0 THEN None ELSE SubSeq(l, 4, BranchEnd(l))

\* clone_repo never sealing the checkout
IsTagNever(tg) == FALSE

\* clone_repo: is_tag, which decides the rmtree of .git
IsTag(tg) == tg # None

\* clone_repo pinning the branch name
PinContentBranch(env, br) == br

\* clone_repo: what is written to .python-version
PinContent(env, br) == env

\* clone_repo tracking origin/<name> for a tag too
CheckoutCommandOrigin(br, tg) ==
    IF tg # None
    THEN "git checkout -b " \o tg \o " origin/" \o tg
    ELSE "git checkout -b " \o br \o " origin/" \o br

\* clone_repo: the checkout command for the requested branch or tag
CheckoutCommand(br, tg) ==
    IF tg # None
    THEN "git checkout -b " \o tg \o " " \o tg
    ELSE "git checkout -b " \o br \o " origin/" \o br

\* clone_repo after the clone: status, checkout, the pin file, the tag's rmtree
GitCheckout ==
    /\ pc = "git_checkout"
    /\ \E oks \in [1..2 -> BOOLEAN], out \in StatusOutputs :
        LET b      == BranchOrTag(branch, tag)
            cur    == CurrentBranch(out)
            status == Issued("clone", <<"git status --branch --porcelain">>, <<oks[1]>>)
            seen   == status \o <<Output("clone", out)>>
            co     == IF cur # b
                      THEN Issued("clone", <<CheckoutCommand(branch, tag)>>, <<oks[2]>>)
                      ELSE <<>>
            pin    == AbsFrom(cwd, ".python-version")
            git    == AbsFrom(cwd, PathJoin(repo_path, ".git"))
            pinned == WriteFile(fs, pin, PinContent(environment, b))
        IN  /\ UNCHANGED <<envs, boot, cwd, runs, args, product, name, environment, repo_path,
                           modulepath, dest>>
            /\ IF StopAt(<<oks[1]>>) # 0
               THEN Abort(status) /\ UNCHANGED fs
               ELSE IF cur = None
               THEN Abort(seen \o <<Failed("clone", "Cannot parse current branch")>>)
                    /\ UNCHANGED fs
               ELSE IF cur # b /\ StopAt(<<oks[2]>>) # 0
               THEN Abort(seen \o co) /\ UNCHANGED fs
               ELSE IF IsTag(tag) /\ ~LExists(pinned, git)
               THEN /\ fs' = pinned
                    /\ Abort(seen \o co
                             \o <<Wrote("clone", ".python-version"),
                                  Raised("clone", "FileNotFoundError")>>)
               ELSE /\ fs' = (IF IsTag(tag) THEN Remove(pinned, git) ELSE pinned)
                    /\ pc' = "install_repo"
                    /\ log' = log \o seen \o co
                                  \o <<Wrote("clone", ".python-version")>>
                                  \o (IF IsTag(tag) THEN <<Wrote("clone", "rmtree .git")>>
                                      ELSE <<>>)

-----------------------------------------------------------------------------
(* install_repo and the package-mode pip install                               *)

\* install_repo looking for setup.py first
InstallCommandSetupFirst(f, d) ==
    IF LExists(f, d \o "/setup.py") THEN "pip install -e ."
    ELSE IF LExists(f, d \o "/pyproject.toml") THEN "poetry install"
    ELSE None

\* install_repo: the command the files of the repository select, None for none
InstallCommand(f, d) ==
    IF LExists(f, d \o "/pyproject.toml") THEN "poetry install"
    ELSE IF LExists(f, d \o "/setup.py") THEN "pip install -e ."
    ELSE None

\* install_repo: the prompt asked before the command
InstallPrompt(command) ==
    IF command = "poetry install" THEN "Poetry install?"
    ELSE IF command = "pip install -e ." THEN "Pip install repository?"
    ELSE "Cannot find setup.py or pyproject.py. Continue?"

InstallRepo ==
    /\ pc = "install_repo"
    /\ \E ans \in BOOLEAN, oks \in [1..2 -> BOOLEAN] :
        LET d       == AbsFrom(cwd, repo_path)
            command == InstallCommand(fs, d)
            asked   == YnLog("install", InstallPrompt(command), ans, yes)
        IN  /\ UNCHANGED <<world, runs, args, product, name, environment, repo_path,
                           modulepath, dest>>
            /\ IF ~(d \in DOMAIN fs /\ fs[d].kind = "dir")
               THEN Abort(<<Raised("install", "FileNotFoundError")>>) /\ UNCHANGED cwd
               ELSE /\ cwd' = d
                    /\ IF command = None
                       THEN IF ~yn(ans, yes)
                            THEN Abort(asked \o <<Failed("install", "")>>)
                            ELSE /\ pc' = "create_modulefile"
                                 /\ log' = log \o asked \o <<Result("install", "install_repo", FALSE)>>
                       ELSE IF ~yn(ans, yes)
                       THEN /\ pc' = "create_modulefile"
                            /\ log' = log \o asked \o <<Result("install", "install_repo", FALSE)>>
                       ELSE IF PyenvFails(environment, oks)
                       THEN Abort(asked \o PyenvIssued("install", command, environment, oks))
                       ELSE /\ pc' = "create_modulefile"
                            /\ log' = log \o asked
                                      \o PyenvIssued("install", command, environment, oks)
                                      \o <<Result("install", "install_repo", TRUE)>>

\* run_with_pyenv(f"pip install {product}", environment)
PipInstall ==
    /\ pc = "pip_install"
    /\ \E oks \in [1..2 -> BOOLEAN] :
        LET command == "pip install " \o product
        IN  /\ UNCHANGED <<world, cwd, runs, args, product, name, environment, repo_path,
                           modulepath, dest>>
            /\ IF PyenvFails(environment, oks)
               THEN Abort(PyenvIssued("install", command, environment, oks))
               ELSE /\ pc' = "create_modulefile"
                    /\ log' = log \o PyenvIssued("install", command, environment, oks)

-----------------------------------------------------------------------------
(* create_modulefile                                                           *)

\* create_modulefile: the default descriptor path <modulepath>/<name>/<version>.lua
DefaultModulePath(root, p, is_repo, br, tg, nm) ==
    LET n == IF is_repo THEN (IF nm # None /\ nm # "" THEN nm ELSE LastSegment(p))
             ELSE (IF nm # None /\ nm # "" THEN nm ELSE get_product_parts(p).name)
        v == IF is_repo THEN (IF tg # None /\ tg # "" THEN tg ELSE br)
             ELSE get_product_parts(p).version
    IN  PathJoin(PathJoin(root, n), v \o ".lua")

\* create_modulefile without the existence check
ModulePathTakenSkipped(f, d, path) == FALSE

\* create_modulefile: the existence check guarding the write
ModulePathTaken(f, d, path) == PathExists(f, AbsFrom(d, path))

\* create_modulefile up to the existence check of the descriptor path
CreateModulefile ==
    /\ pc = "create_modulefile"
    /\ \E ans \in BOOLEAN, typed \in (IF yes THEN {None} ELSE ModulePathAnswers \cup {None}) :
        LET dflt  == DefaultModulePath(MODULEFILES, product, clone, branch, tag, name)
            path  == IF typed = None THEN dflt ELSE typed
            asked == YnLog("module", "Create modulefile?", ans, yes)
        IN  /\ UNCHANGED <<world, cwd, runs, args, product, name, environment, repo_path, dest>>
            /\ IF ~yn(ans, yes)
               THEN Abort(asked \o <<Failed("module", "")>>) /\ UNCHANGED modulepath
               ELSE /\ modulepath' = path
                    /\ IF path = ""
                       THEN Abort(asked \o <<Failed("module", "")>>)
                       ELSE IF ModulePathTaken(fs, cwd, path)
                       THEN Abort(asked \o <<Failed("module", "Module path already exists.")>>)
                       ELSE pc' = "write_modulefile" /\ log' = log \o asked

\* create_modulefile: the prepend_path line of one binding
PrependPath(var, value) ==
    "prepend_path{'" \o Upper(var) \o "', '" \o value \o "', delim=':', priority='0'}"

\* create_modulefile emitting every binding
SkipBindingNever(f, d, var, value) == FALSE

\* create_modulefile: whether the loop over envvars skips the binding
SkipBinding(f, d, var, value) == EndsWith(var, "PATH") /\ ~PathExists(f, AbsFrom(d, value))

RECURSIVE DepLinesPrereqFirst(_)
\* create_modulefile writing prereq before load
DepLinesPrereqFirst(deps) ==
    IF deps = <<>> THEN <<>>
    ELSE <<"prereq('" \o deps[1] \o "')", "load('" \o deps[1] \o "')", "">>
         \o DepLinesPrereqFirst(Tail(deps))

RECURSIVE DepLines(_)
\* create_modulefile: load and prereq of each dependency, in the order given
DepLines(deps) ==
    IF deps = <<>> THEN <<>>
    ELSE <<"load('" \o deps[1] \o "')", "prereq('" \o deps[1] \o "')", "">>
         \o DepLines(Tail(deps))

RECURSIVE BindingLines(_, _, _)
\* create_modulefile: the prepend_path lines of the bindings, in insertion order
BindingLines(f, d, envvars) ==
    IF envvars = <<>> THEN <<>>
    ELSE (IF SkipBinding(f, d, envvars[1][1], envvars[1][2]) THEN <<>>
          ELSE <<PrependPath(envvars[1][1], envvars[1][2])>>)
         \o BindingLines(f, d, Tail(envvars))

\* create_modulefile: lines, as written to the descriptor
ModuleLines(f, d, nm, deps, is_repo, rp, envvars, env) ==
    LET l1 == <<"conflict('" \o nm \o "')", "">> \o DepLines(deps)
        l2 == l1 \o (IF is_repo /\ rp # None /\ rp # ""
                     THEN <<"setenv('" \o Upper(nm) \o "_DIR', '" \o rp \o "')">>
                     ELSE <<>>)
        l3 == l2 \o BindingLines(f, d, envvars)
        l4 == l3 \o (IF l3[Len(l3)] # "" THEN <<"">> ELSE <<>>)
    IN  l4 \o <<"setenv('PYENV_VERSION', '" \o env \o "')", "">>

\* create_modulefile: envvars after the PYTHONPATH and PATH prompts; a None
\* answer is a declined prompt
CollectEnvvars(rp, pythonpath, path) ==
    (IF rp # None /\ rp # "" /\ pythonpath # None THEN <<<<"PYTHONPATH", pythonpath>>>> ELSE <<>>)
    \o (IF path # None /\ rp # None /\ rp # "" THEN <<<<"PATH", path>>>> ELSE <<>>)

\* the name create_modulefile writes the descriptor for
ModuleName(p, is_repo, nm) ==
    IF nm # None /\ nm # "" THEN nm
    ELSE IF is_repo THEN LastSegment(p) ELSE get_product_parts(p).name

\* the text typed at the PYTHONPATH / PATH prompt, None when it is declined
PathAnswer(kind, dflt, rp) ==
    IF kind = "n" THEN None ELSE IF kind = "default" THEN dflt ELSE rp

\* create_modulefile from the dependency prompt to the written descriptor
WriteModulefile ==
    /\ pc = "write_modulefile"
    /\ \E a \in ModuleAnswers :
        LET is_src  == repo_path # None /\ repo_path # ""
            pp      == IF is_src THEN PathAnswer(a[2], "repo_path", repo_path) ELSE None
            pa      == IF is_src THEN PathAnswer(a[3], PathJoin(repo_path, "bin"), repo_path)
                       ELSE PathAnswer(a[3], "", "")
            envvars == CollectEnvvars(repo_path, pp, pa)
            lines   == ModuleLines(fs, cwd, ModuleName(product, clone, name), Split(a[1]),
                                   clone, repo_path, envvars, environment)
            dirpath == AbsFrom(cwd, DirName(modulepath))
            target  == AbsFrom(cwd, modulepath)
            asked   == <<Typed("module", "deps", a[1])>>
                       \o (IF is_src
                           THEN <<Asked("module", "Add PYTHONPATH?", pp # None)>> ELSE <<>>)
                       \o (IF is_src /\ pp # None
                           THEN <<Typed("module", "PYTHONPATH", pp)>> ELSE <<>>)
                       \o <<Asked("module", "Add to PATH?", pa # None)>>
                       \o (IF is_src /\ pa # None
                           THEN <<Typed("module", "PATH", pa)>> ELSE <<>>)
            made    == MakeDirs(fs, dirpath)
        IN  /\ UNCHANGED <<envs, boot, cwd, runs, args, product, name, environment, repo_path,
                           modulepath, dest>>
            /\ IF MakeDirsFails(fs, dirpath)
               THEN Abort(asked \o <<Raised("module", "FileExistsError")>>) /\ UNCHANGED fs
               ELSE IF WriteFails(made, target)
               THEN /\ fs' = made
                    /\ Abort(asked \o <<Wrote("module", "makedirs"), Raised("module", "OSError")>>)
               ELSE /\ fs' = WriteFile(made, target, Join(lines, "\n"))
                    /\ pc' = "make_default"
                    /\ log' = log \o asked
                              \o <<Wrote("module", "makedirs"), Wrote("module", "modulefile")>>

\* create_modulefile: whether the old default link is found and unlinked
DefaultFound(f, d) == PathExists(f, d)

\* create_modulefile: "Make default?", and the unlink of the old link
MakeDefault ==
    /\ pc = "make_default"
    /\ \E ans \in BOOLEAN :
        LET dirpath == AbsFrom(cwd, DirName(modulepath))
            d       == PathJoin(dirpath, "default")
            asked   == <<Asked("default", "Make default?", ans)>>
        IN  /\ UNCHANGED <<envs, boot, cwd, runs, args, product, name, environment, repo_path,
                           modulepath>>
            /\ IF ~yn(ans, FALSE)
               THEN pc' = "done" /\ log' = log \o asked /\ UNCHANGED <<fs, dest>>
               ELSE /\ dest' = d
                    /\ pc' = "symlink"
                    /\ IF DefaultFound(fs, d)
                       THEN /\ fs' = Remove(fs, d)
                            /\ log' = log \o asked \o <<Wrote("default", "unlink")>>
                       ELSE /\ UNCHANGED fs
                            /\ log' = log \o asked

\* create_modulefile: os.symlink(modulepath, dest)
Symlink ==
    /\ pc = "symlink"
    /\ UNCHANGED <<envs, boot, cwd, runs, args, product, name, environment, repo_path,
                   modulepath, dest>>
    /\ IF LExists(fs, dest)
       THEN Abort(<<Raised("default", "FileExistsError")>>) /\ UNCHANGED fs
       ELSE /\ fs' = [q \in DOMAIN fs \cup {dest} |->
                        IF q = dest THEN Link(modulepath) ELSE fs[q]]
            /\ pc' = "done"
            /\ log' = log \o <<Wrote("default", "symlink")>>

-----------------------------------------------------------------------------
(* set-version.py                                                              *)

\* what `module --redirect show <module>` prints for the descriptor at path
ModuleShowOutput(path, text) ==
    "-----\n" \o "   " \o path \o ":\n" \o "-----\n" \o text

\* what the command prints for the descriptor at path file, or for none there
Shown(f, file) ==
    IF file \in DOMAIN f /\ f[file].kind = "file"
    THEN ModuleShowOutput(file, f[file].data)
    ELSE "Lmod has detected the following error:\n  unknown module\n"

\* whether `module --redirect show` exits with 0: it ran, and the module is there
ShowExit(ok, f, file) == ok /\ file \in DOMAIN f /\ f[file].kind = "file"

\* get_modulefile_path going on whatever run() returned
LookupFailsNever(exit) == FALSE

\* get_modulefile_path: click.Abort when run() returned None
LookupFails(exit) == ~exit

\* get_modulefile_path: lines[1].strip()[:-1]
ShownPath(out) ==
    LET l == Strip(SplitLines(out)[2])
    IN  SubSeq(l, 1, Len(l) - 1)

\* set_version: a PRODUCT holding "/" is split into product and version
SplitModule(p, v) ==
    IF Contains("/", p)
    THEN <<SubSeq(p, 1, IndexOf("/", p) - 1), SubSeq(p, IndexOf("/", p) + 1, Len(p))>>
    ELSE <<p, v>>

\* the descriptor the module system resolves <product>/<version> to
ModuleFile(p, v) == PathJoin(PathJoin(MODULEFILES, p), v \o ".lua")

\* set_version: whether the old default link is found and unlinked
SvDefaultFound(f, d) == PathExists(f, d)

\* set_version up to the unlink of the old default link
SetVersion ==
    /\ Stopped
    /\ runs < MaxRuns
    /\ \E a \in SetVersionArgs, ok \in BOOLEAN :
        LET pv    == SplitModule(a[1], a[2])
            file  == ModuleFile(pv[1], pv[2])
            exit  == ShowExit(ok, fs, file)
            show  == "module --redirect show " \o pv[1] \o "/" \o pv[2]
            path  == ShownPath(Shown(fs, file))
            d     == PathJoin(DirName(path), "default")
        IN  /\ runs' = runs + 1
            /\ clone' = FALSE /\ yes' = FALSE /\ branch' = "main" /\ tag' = None
            /\ product' = pv[1] /\ name' = None /\ environment' = None
            /\ repo_path' = None /\ cwd' = Cwd0
            /\ UNCHANGED <<envs, boot>>
            /\ IF pv[2] = None
               THEN /\ pc' = "done"
                    /\ log' = <<Cmd("set-version", "module --redirect -t -d avail " \o pv[1], ok)>>
                    /\ modulepath' = None /\ dest' = None
                    /\ UNCHANGED fs
               ELSE IF LookupFails(exit)
               THEN /\ pc' = "aborted"
                    /\ log' = <<Cmd("set-version", show, exit), Failed("set-version", "not found")>>
                    /\ modulepath' = None /\ dest' = None
                    /\ UNCHANGED fs
               ELSE /\ pc' = "sv_symlink"
                    /\ modulepath' = path
                    /\ dest' = d
                    /\ IF SvDefaultFound(fs, d)
                       THEN /\ fs' = Remove(fs, d)
                            /\ log' = <<Cmd("set-version", show, exit),
                                         Wrote("set-version", "unlink")>>
                       ELSE /\ UNCHANGED fs
                            /\ log' = <<Cmd("set-version", show, exit)>>

\* set_version: os.symlink(path, default)
SvSymlink ==
    /\ pc = "sv_symlink"
    /\ UNCHANGED <<envs, boot, cwd, runs, args, product, name, environment, repo_path,
                   modulepath, dest>>
    /\ IF LExists(fs, dest)
       THEN Abort(<<Raised("set-version", "FileExistsError")>>) /\ UNCHANGED fs
       ELSE /\ fs' = [q \in DOMAIN fs \cup {dest} |->
                        IF q = dest THEN Link(modulepath) ELSE fs[q]]
            /\ pc' = "done"
            /\ log' = log \o <<Wrote("set-version", "symlink")>>

Next ==
    \/ Evilclone
    \/ CreateEnvironment
    \/ Virtualenv
    \/ Bootstrap
    \/ CloneRepo
    \/ GitClone
    \/ GitCheckout
    \/ InstallRepo
    \/ PipInstall
    \/ CreateModulefile
    \/ WriteModulefile
    \/ MakeDefault
    \/ Symlink
    \/ SetVersion
    \/ SvSymlink

Spec == Init /\ [][Next]_vars

-----------------------------------------------------------------------------
(* Properties.                                                                 *)

LogHas(e) == \E i \in DOMAIN log : log[i] = e

\* the text typed at the prompt of that kind in log l, None when it was not asked
TypedIn(l, kind) ==
    IF \E i \in DOMAIN l : l[i].kind = kind
    THEN l[CHOOSE i \in DOMAIN l : l[i].kind = kind].what
    ELSE None

\* the registered descriptor files
DescriptorFiles(f) == {p \in DOMAIN f : f[p].kind = "file" /\ EndsWith(p, ".lua")}

\* C1: when the descriptor path create_modulefile settles on (computed, or the
\* operator's override) exists at its check, the invocation aborts there with the
\* file system as it was; and no step of any invocation changes or removes the
\* text of a descriptor file that exists.
C1_Step ==
    /\ (pc = "create_modulefile" /\ modulepath' # None
            /\ PathExists(fs, AbsFrom(cwd, modulepath')))
        => (pc' = "aborted" /\ fs' = fs)
    /\ \A p \in DescriptorFiles(fs) : p \in DOMAIN fs' /\ fs'[p] = fs[p]

C1_NoOverwrite == [][C1_Step]_vars

C1_Witness ==
    /\ pc = "aborted"
    /\ modulepath # None
    /\ LogHas(Failed("module", "Module path already exists."))
    /\ AbsFrom(cwd, modulepath) \in DescriptorFiles(fs)

ReuseQuestion == "Path already exists. Use it?"

\* C2: when the path clone_repo chooses exists, the step leaves the file system
\* and the working directory as they are and either returns the path after the
\* operator answered yes to the reuse question (asked in yes-mode too) or aborts
\* on the answer no; a clone is only ever issued toward a path that does not
\* exist, and never in an invocation that asked the reuse question.
C2_Step ==
    (pc = "clone_repo" /\ PathExists(fs, AbsFrom(cwd, repo_path')))
        => /\ fs' = fs /\ cwd' = cwd /\ envs' = envs
           /\ \/ pc' = "install_repo" /\ log' = log \o <<Asked("clone", ReuseQuestion, TRUE)>>
              \/ pc' = "aborted"
                    /\ log' = log \o <<Asked("clone", ReuseQuestion, FALSE), Failed("clone", "")>>

C2_State ==
    /\ pc = "git_clone" => ~PathExists(fs, AbsFrom(cwd, repo_path))
    /\ (\E i \in DOMAIN log : log[i].kind = "yn" /\ log[i].what = ReuseQuestion)
        => \A j \in DOMAIN log : log[j].step = "clone" => log[j].kind \in {"yn", "fail"}

C2_NoCloneOverExisting == []C2_State /\ [][C2_Step]_vars

C2_Witness ==
    /\ pc = "install_repo"
    /\ yes
    /\ LogHas(Asked("clone", ReuseQuestion, TRUE))
    /\ PathExists(fs, AbsFrom(cwd, repo_path))

\* the confirmations whose refusal calls fail()
FatalQuestions ==
    {"Environment already exists. Use it?", "Path already exists. Use it?",
     "Cannot find setup.py or pyproject.py. Continue?", "Create modulefile?"}

\* entry i of the install workflow's log ended the invocation: it is aborted and
\* nothing but the failure itself is logged after it
EndsAt(i) ==
    /\ pc = "aborted"
    /\ \A j \in (i + 1)..Len(log) : log[j].kind = "fail"

\* C3 as stated: every failed external command and every declined yes/no
\* confirmation of the install workflow ends the invocation on the spot.
C3_Original ==
    \A i \in DOMAIN log :
        (log[i].step # "set-version" /\ log[i].kind \in {"cmd", "yn"} /\ ~log[i].ok)
            => EndsAt(i)

\* C3 as amended: every failed external command, and every declined
\* confirmation among the four that guard a step (reuse the environment, reuse
\* the path, continue without an install step, create the modulefile), ends the
\* invocation on the spot: nothing is issued, written or linked after it; and
\* the step that aborts leaves every environment and every file as it was.
C3_State ==
    \A i \in DOMAIN log :
        (/\ log[i].step # "set-version"
         /\ ~log[i].ok
         /\ \/ log[i].kind = "cmd"
            \/ log[i].kind = "yn" /\ log[i].what \in FatalQuestions)
            => EndsAt(i)

C3_NoRollback ==
    pc' = "aborted" =>
        /\ envs' = envs
        /\ \A p \in DOMAIN fs : p \in DOMAIN fs' /\ fs'[p] = fs[p]

C3_FailFast == []C3_State /\ [][C3_NoRollback]_vars

C3_Witness ==
    /\ pc = "aborted"
    /\ LogHas(Cmd("env", "pyenv virtualenv", TRUE))
    /\ LogHas(Cmd("clone", "git clone", TRUE))
    /\ environment \in envs
    /\ PathExists(fs, repo_path)
    /\ log[Len(log)].kind = "cmd"

\* the place of a step in the workflow
Rank(step) ==
    CASE step = "name" -> 0
      [] step = "env" -> 1
      [] step = "clone" -> 2
      [] step = "install" -> 3
      [] step = "module" -> 4
      [] step = "default" -> 5
      [] OTHER -> 6

\* C4: the log of an invocation of the install workflow runs through the steps
\* in their order (environment, clone, install, descriptor, default); an entry
\* of a later step follows only successful commands of the earlier steps; the
\* descriptor is written only after an environment step, then in repository
\* mode a clone step and no pip install of the product, in package mode the
\* successful pip install of the product and no clone step, with no failure
\* before it; and the default link is touched only after the descriptor write.
C4_Order ==
    /\ \A i, j \in DOMAIN log :
        (i < j /\ log[i].step # "set-version") =>
            /\ Rank(log[i].step) <= Rank(log[j].step)
            /\ (log[i].kind = "cmd" /\ Rank(log[i].step) < Rank(log[j].step)) => log[i].ok
    /\ \A j \in DOMAIN log :
        log[j] = Wrote("module", "modulefile") =>
            /\ \A i \in 1..(j - 1) :
                log[i].kind \notin {"fail", "raise"} /\ (log[i].kind = "cmd" => log[i].ok)
            /\ \E i \in 1..(j - 1) : log[i] = Cmd("env", "pyenv versions --bare", TRUE)
            /\ clone => /\ \E i \in 1..(j - 1) : log[i].step = "clone"
                        /\ ~LogHas(Cmd("install", "pip install " \o product, TRUE))
            /\ ~clone => /\ \A i \in 1..(j - 1) : log[i].step # "clone"
                         /\ \E i \in 1..(j - 1) :
                                log[i] = Cmd("install", "pip install " \o product, TRUE)
    /\ \A j \in DOMAIN log :
        log[j].step = "default" =>
            \E i \in 1..(j - 1) : log[i] = Wrote("module", "modulefile")

C4_Witness ==
    /\ pc = "done"
    /\ clone
    /\ LogHas(Cmd("env", "pip install -U pip setuptools wheel", TRUE))
    /\ LogHas(Cmd("clone", "git clone", TRUE))
    /\ LogHas(Cmd("install", "pip install -e .", TRUE))
    /\ LogHas(Wrote("default", "symlink"))

CreationCommands == {"pyenv virtualenv", "pip install -U pip setuptools wheel"}

\* C5: a create_environment call whose environment name is in pyenv's list
\* leaves the set of environments as it is, issues neither the creation nor the
\* bootstrap command, and either returns that name (in yes-mode, or after the
\* operator answered yes) or aborts; it never goes on to create an environment.
C5_Step ==
    (pc = "create_environment" /\ environment' \in PyenvVersions(envs)) =>
        /\ envs' = envs
        /\ \A i \in DOMAIN log' : log'[i].what \notin CreationCommands
        /\ \/ /\ pc' = (IF clone THEN "clone_repo" ELSE "pip_install")
              /\ yes \/ log'[Len(log')] = Asked("env", "Environment already exists. Use it?", TRUE)
           \/ pc' = "aborted"

C5_ReuseIsIdempotent == [][C5_Step]_vars

C5_Witness ==
    /\ runs = 2
    /\ pc \in {"clone_repo", "pip_install"}
    /\ environment \in envs
    /\ \A i \in DOMAIN log : log[i].what \notin CreationCommands

\* C6 as stated: every promotion that is attempted (the "Make default?" step of
\* create_modulefile, set-version with a version that is found) completes, and
\* leaves the default link of the directory pointing at the promoted descriptor.
C6_PromotionCompletes ==
    (pc \in {"done", "aborted"} /\ dest # None) =>
        /\ pc = "done"
        /\ dest \in DOMAIN fs
        /\ fs[dest] = Link(modulepath)

\* clone_repo has just returned repo_path
Returned == pc = "install_repo"

\* the invocation cloned the repository itself
FreshClone == LogHas(Cmd("clone", "git clone", TRUE))

GitDir == AbsFrom(cwd, repo_path) \o "/.git"

PinFile == AbsFrom(cwd, repo_path) \o "/.python-version"

\* C7 as stated: whenever clone_repo returns with a tag, fresh clone or reused
\* path, no .git is left under the returned path.
C7_Original == (Returned /\ tag # None) => ~LExists(fs, GitDir)

\* C7 as amended: whenever clone_repo returns with a tag after cloning the
\* repository itself, no .git is left under the returned path.
C7_SealedWhenCloned == (Returned /\ tag # None /\ FreshClone) => ~LExists(fs, GitDir)

C7_Witness ==
    /\ Returned /\ tag # None /\ FreshClone
    /\ LExists(fs, AbsFrom(cwd, repo_path))
    /\ ~LExists(fs, GitDir)

\* C8 as stated: whenever clone_repo returns, fresh clone or reused path, the
\* returned path holds .python-version with exactly the environment name.
C8_Original == Returned => (PinFile \in DOMAIN fs /\ fs[PinFile] = File(environment))

\* C8 as amended: whenever clone_repo returns after cloning the repository
\* itself, the returned path holds .python-version with exactly the environment
\* name.
C8_PinnedWhenCloned ==
    (Returned /\ FreshClone) => (PinFile \in DOMAIN fs /\ fs[PinFile] = File(environment))

C8_Witness ==
    /\ Returned /\ FreshClone
    /\ PinFile \in DOMAIN fs
    /\ fs[PinFile] = File(environment)
    /\ environment \in envs

\* the descriptor create_modulefile has just written
Descriptor == fs[AbsFrom(cwd, modulepath)].data

\* its lines, the blank ones left out
Directives == SelectSeq(SplitLines(Descriptor), LAMBDA l : l # "")

\* C9: the directives of a descriptor just written are, in this order: conflict
\* of the product name; load then prereq of each dependency in the order typed;
\* in repository mode setenv of <NAME>_DIR to the repository path; the
\* prepend_path lines, each one of a collected binding, PYTHONPATH before PATH;
\* and last setenv of PYENV_VERSION to the environment.
C9_DirectiveOrder ==
    pc = "make_default" =>
        LET d    == Directives
            deps == Split(TypedIn(log, "deps"))
            nd   == Len(deps)
            base == 1 + 2 * nd + (IF clone THEN 1 ELSE 0)
            pyp  == "prepend_path{'PYTHONPATH', '" \o TypedIn(log, "PYTHONPATH")
                        \o "', delim=':', priority='0'}"
            pth  == "prepend_path{'PATH', '" \o TypedIn(log, "PATH")
                        \o "', delim=':', priority='0'}"
        IN  /\ Len(d) > base
            /\ d[1] = "conflict('" \o name \o "')"
            /\ \A k \in 1..nd :
                /\ d[2 * k] = "load('" \o deps[k] \o "')"
                /\ d[2 * k + 1] = "prereq('" \o deps[k] \o "')"
            /\ clone => d[base] = "setenv('" \o Upper(name) \o "_DIR', '" \o repo_path \o "')"
            /\ \A k \in (base + 1)..(Len(d) - 1) : d[k] \in {pyp, pth}
            /\ \A k, m \in (base + 1)..(Len(d) - 1) : (k < m) => ~(d[k] = pth /\ d[m] = pyp)
            /\ d[Len(d)] = "setenv('PYENV_VERSION', '" \o environment \o "')"

C9_Witness ==
    /\ pc = "make_default"
    /\ clone
    /\ Len(Split(TypedIn(log, "deps"))) = 2
    /\ Len(Directives) = 9

\* C10: when create_modulefile writes the descriptor, each collected binding
\* (PYTHONPATH, PATH) has its prepend_path line in the text exactly when its
\* value exists on disk before the write; a binding that is skipped does not
\* stop the write, and the conflict and PYENV_VERSION lines are written all the same.
C10_Step ==
    (pc = "write_modulefile" /\ (TypedIn(log', "PYTHONPATH") # None \/ TypedIn(log', "PATH") # None))
        => /\ pc' = "make_default"
           /\ LET text == fs'[AbsFrom(cwd, modulepath)].data
              IN  /\ \A var \in {"PYTHONPATH", "PATH"} :
                        TypedIn(log', var) # None =>
                            (Contains("prepend_path{'" \o var \o "', '" \o TypedIn(log', var)
                                        \o "', delim=':', priority='0'}", text)
                             <=> PathExists(fs, AbsFrom(cwd, TypedIn(log', var))))
                  /\ Contains("conflict('" \o name \o "')", text)
                  /\ Contains("setenv('PYENV_VERSION', '" \o environment \o "')", text)

C10_SkipsMissingPaths == [][C10_Step]_vars

C10_Witness ==
    /\ pc = "make_default"
    /\ TypedIn(log, "PATH") # None
    /\ ~PathExists(fs, AbsFrom(cwd, TypedIn(log, "PATH")))
    /\ ~Contains("prepend_path{'PATH'", Descriptor)
    /\ Contains("prepend_path{'PYTHONPATH'", Descriptor)

\* the invocation under way, or last run, is one of evilclone
InstallRun == pc # "idle" /\ ~(log # <<>> /\ log[1].step = "set-version")

Comparators == "><=~!"

\* C11 as stated: for the package spec of an invocation, read as a name of
\* [A-Za-z0-9_-]+, a run of comparator characters and the rest as its version:
\* with a comparator and a version get_product_parts returns exactly (name,
\* version); with a comparator and no version it fails; and a bare name resolves
\* to that name with no version, the invocation not failing on it.
C11_PartsAsSpecified ==
    (InstallRun /\ ~clone) =>
        LET n     == Span(product, NameChars)
            rest  == SubSeq(product, n + 1, Len(product))
            c     == Span(rest, Comparators)
            v     == SubSeq(rest, c + 1, Len(rest))
            parts == get_product_parts(product)
            fails == pc = "aborted" /\ log = <<Raised("name", "AssertionError")>>
        IN  /\ (n > 0 /\ c > 0 /\ v # "") =>
                (parts.ok /\ parts.name = SubSeq(product, 1, n) /\ parts.version = v /\ ~fails)
            /\ (n > 0 /\ c > 0 /\ v = "") => (~parts.ok /\ fails)
            /\ (n > 0 /\ c = 0 /\ v = "") =>
                (parts.ok /\ parts.name = product /\ parts.version = "" /\ ~fails)

\* the operator typed a name of their own at the "Product name" prompt
Overridden == InstallRun /\ name # None /\ name # DefaultName(product, clone)

\* the descriptor of this invocation is on disk
Written == LogHas(Wrote("module", "modulefile"))

\* C12 as stated: in an invocation whose product name was overridden, the
\* default environment name, the default clone path, the default descriptor
\* path, the conflict directive and the <NAME>_DIR variable are all made from
\* the overridden name, in package mode and in repository mode.
C12_OverrideEverywhere ==
    Overridden =>
        LET v == IF clone THEN BranchOrTag(branch, tag) ELSE get_product_parts(product).version
        IN  /\ environment # None => environment = name \o "-" \o Replace(v, "/", "_")
            /\ repo_path # None =>
                repo_path = PathJoin(PathJoin(PRODUCT_DIR, name), Replace(v, "/", "_"))
            /\ modulepath # None =>
                modulepath \in {PathJoin(PathJoin(MODULEFILES, name), v \o ".lua")}
                                  \cup ModulePathAnswers
            /\ Written =>
                /\ Directives[1] = "conflict('" \o name \o "')"
                /\ clone => Contains("setenv('" \o Upper(name) \o "_DIR', ", Descriptor)

\* the questions asked, and the commands issued besides the lookup of the
\* environment's path, at the install step
InstallQuestions == {log[i].what : i \in {j \in DOMAIN log : log[j].step = "install" /\ log[j].kind = "yn"}}

InstallCommands ==
    {log[i].what : i \in {j \in DOMAIN log : log[j].step = "install" /\ log[j].kind = "cmd"}}
        \ {"pyenv versions --bare --skip-aliases"}

\* install_repo was entered in the repository and did not die on the chdir
Installing ==
    /\ InstallRun /\ clone
    /\ \E i \in DOMAIN log : log[i].step = "install"
    /\ ~LogHas(Raised("install", "FileNotFoundError"))

InstallReturned(v) == LogHas(Result("install", "install_repo", v))

\* the part of the policy the claim and the code agree on: with neither file
\* the operator is asked (outside yes-mode) whether to continue, yes skips the
\* install and returns false, no aborts; the function returns true exactly
\* when an install command ran to its end
C13_Common(py, st) ==
    /\ (~py /\ ~st) =>
        /\ InstallCommands = {}
        /\ InstallQuestions =
            (IF yes THEN {} ELSE {"Cannot find setup.py or pyproject.py. Continue?"})
        /\ \/ InstallReturned(FALSE)
           \/ /\ pc = "aborted"
              /\ LogHas(Asked("install", "Cannot find setup.py or pyproject.py. Continue?", FALSE))
    /\ InstallReturned(TRUE) <=>
        \E c \in {"poetry install", "pip install -e ."} : LogHas(Cmd("install", c, TRUE))
    /\ ~(InstallReturned(TRUE) /\ InstallReturned(FALSE))

SchemeRemote == InstallRun /\ clone /\ Contains("http://", product)

\* C14: a repository-mode invocation whose remote is an http URL is aborted by
\* get_repo_path with nothing else done: its log holds the rejection only (no
\* listing or creation of an environment, no clone, no descriptor write) and
\* the step leaves environments and files as they were; and whenever the clone
\* command is about to be, or has been, issued the remote begins with git@.
C14_State ==
    /\ SchemeRemote =>
        /\ pc = "aborted"
        /\ log = <<Failed("name", "Repositories must use git@github.com paths.")>>
    /\ (pc = "git_clone" \/ \E i \in DOMAIN log : log[i].what = "git clone") =>
        StartsWith(product, "git@")

C14_Step == (clone' /\ Contains("http://", product') /\ runs' # runs) => world' = world

C14_HttpRejected == []C14_State /\ [][C14_Step]_vars

C14_Witness ==
    /\ SchemeRemote
    /\ product = "http://o/w"
    /\ pc = "aborted"
    /\ runs = 2
    /\ envs # {}

\* C15: in package mode with a spec <name><comparator><version> and no -e, the
\* environment the invocation works with (the default of the "Environment name"
\* prompt) is <name>-<version>, the name being the product name the invocation
\* settled on; and the one command of the install step issued in the
\* environment is "pip install " followed by the spec as given, issued only
\* once the environment exists.
C15_PackageScenario ==
    (InstallRun /\ ~clone /\ get_product_parts(product).ok) =>
        /\ environment # None =>
            environment = name \o "-" \o get_product_parts(product).version
        /\ \A i \in DOMAIN log :
            (log[i].step = "install" /\ log[i].kind = "cmd"
                    /\ log[i].what # "pyenv versions --bare --skip-aliases") =>
                /\ log[i].what = "pip install " \o product
                /\ environment \in envs
                /\ \E j \in 1..(i - 1) : log[j] = Cmd("env", "pyenv versions --bare", TRUE)

C15_Witness ==
    /\ InstallRun /\ ~clone
    /\ product = "w==1"
    /\ name = "w"
    /\ environment = "w-1"
    /\ LogHas(Cmd("env", "pyenv virtualenv", TRUE))
    /\ LogHas(Cmd("install", "pip install w==1", TRUE))

\* the places of the checkout commands in the log
Checkouts == {i \in DOMAIN log : log[i].kind = "cmd" /\ StartsWith(log[i].what, "git checkout")}

\* C16: for every status output read after a fresh clone: when it does not
\* parse, the failure is all that follows it, and the clone is left with its
\* .git and without a pin file; when the branch read is the requested branch or
\* tag, no checkout command is issued; otherwise one checkout command is
\* issued, right after it: for a branch "git checkout -b <branch>
\* origin/<branch>", for a tag "git checkout -b <tag> <tag>".
C16_BranchDetection ==
    \A i \in DOMAIN log :
        (log[i].kind = "stdout" /\ log[i].step = "clone") =>
            LET cur == CurrentBranch(log[i].what)
                b   == BranchOrTag(branch, tag)
            IN  /\ log[i - 1] = Cmd("clone", "git status --branch --porcelain", TRUE)
                /\ \E j \in 1..(i - 1) : log[j] = Cmd("clone", "git clone", TRUE)
                /\ cur = None =>
                    /\ pc = "aborted"
                    /\ SubSeq(log, i + 1, Len(log))
                            = <<Failed("clone", "Cannot parse current branch")>>
                    /\ LExists(fs, GitDir)
                    /\ ~LExists(fs, PinFile)
                /\ cur = b => Checkouts = {}
                /\ (cur # None /\ cur # b) =>
                    /\ Checkouts = {i + 1}
                    /\ log[i + 1].what =
                        (IF tag # None
                         THEN "git checkout -b " \o tag \o " " \o tag
                         ELSE "git checkout -b " \o branch \o " origin/" \o branch)

C16_Witness ==
    /\ pc = "install_repo"
    /\ tag = "v1"
    /\ LogHas(Output("clone", "## main...origin/main\n"))
    /\ LogHas(Cmd("clone", "git checkout -b v1 v1", TRUE))
    /\ ~LExists(fs, GitDir)

\* the invocation stands between the two steps of a promotion
BetweenSteps == pc \in {"symlink", "sv_symlink"}

\* the first step of the promotion found the old link and removed it
Unlinked == log # <<>> /\ log[Len(log)].what = "unlink"

\* C17: the only links there are are named default, so a directory never holds
\* more than one; no step changes what an existing link references or puts a
\* link where one is (a promotion is never one atomic replace); and in the
\* state between the two steps of a promotion whose first step removed the old
\* link, the directory has no default link.
C17_State ==
    /\ \A p \in DOMAIN fs : fs[p].kind = "link" => LastSegment(p) = "default"
    /\ (BetweenSteps /\ Unlinked) => ~LExists(fs, dest)

C17_Step ==
    \A p \in DOMAIN fs' :
        fs'[p].kind = "link" =>
            \/ p \in DOMAIN fs /\ fs[p] = fs'[p]
            \/ p \notin DOMAIN fs /\ BetweenSteps /\ p = dest

C17_RemoveThenLink == []C17_State /\ [][C17_Step]_vars

C17_Witness ==
    /\ BetweenSteps
    /\ Unlinked
    /\ runs = 2
    /\ ~LExists(fs, dest)
    /\ PathExists(fs, AbsFrom(cwd, modulepath))

\* the step starts an invocation of set-version
SvStarts == log' # log /\ log' # <<>> /\ log'[1].step = "set-version" /\ runs' # runs

\* C18: an invocation of set-version given no version issues the avail query
\* and is done; one whose show lookup exits non-zero aborts on it; in both the
\* step leaves every file and link as it was.  A set-version step changes
\* nothing but the default link next to the descriptor it found, and no
\* environment.
C18_Step ==
    /\ SvStarts =>
        /\ StartsWith(log'[1].what, "module --redirect -t -d avail ") =>
            (pc' = "done" /\ Len(log') = 1 /\ fs' = fs)
        /\ (StartsWith(log'[1].what, "module --redirect show ") /\ ~log'[1].ok) =>
            (pc' = "aborted" /\ fs' = fs)
    /\ (pc' = "sv_symlink" \/ pc = "sv_symlink") =>
        /\ log'[1].kind = "cmd" /\ StartsWith(log'[1].what, "module --redirect show ")
        /\ log'[1].ok
        /\ envs' = envs
        /\ \A p \in (DOMAIN fs \cup DOMAIN fs') \ {dest'} :
            p \in DOMAIN fs /\ p \in DOMAIN fs' /\ fs'[p] = fs[p]

C18_SetVersionFrame == [][C18_Step]_vars

C18_Witness ==
    /\ pc = "aborted"
    /\ log # <<>>
    /\ log[1].step = "set-version"
    /\ log[1].kind = "cmd" /\ ~log[1].ok
    /\ \E p \in DOMAIN fs : fs[p].kind = "link"
    /\ DescriptorFiles(fs) # {}

\* create_environment has just returned environment
EnvironmentReturned == InstallRun /\ pc \in {"clone_repo", "pip_install"}

\* the environment was created by this invocation
CreatedHere == LogHas(Cmd("env", "pyenv virtualenv", TRUE))

\* C19 as stated: every environment create_environment returns, in any
\* invocation of any sequence, is one the bootstrap has completed in.
C19_Original == EnvironmentReturned => environment \in boot

\* C19 as amended: every environment create_environment returns after creating
\* it in the same call is one the bootstrap has completed in; an environment
\* that is not is returned only by reuse, after it was found in pyenv's list.
C19_BootstrappedWhenCreated ==
    EnvironmentReturned =>
        /\ CreatedHere => environment \in boot
        /\ environment \notin boot =>
            /\ environment \in envs
            /\ ~LogHas(Cmd("env", "pip install -U pip setuptools wheel", TRUE))
            /\ yes \/ LogHas(Asked("env", "Environment already exists. Use it?", TRUE))

C19_Witness ==
    /\ EnvironmentReturned
    /\ CreatedHere
    /\ environment \in boot
    /\ runs = 2
    /\ \E e \in envs : e \notin boot

\* C20 as stated: whenever run_with_pyenv has looked the environment's path
\* up, the path it exports as VIRTUAL_ENV is the one of the environment of
\* exactly that name, which is installed; and the lookup fails with "Cannot
\* find environment." only when no environment of exactly that name is.
C20_ExactEnvPath ==
    InstallRun =>
        /\ \A i \in DOMAIN log :
            log[i].kind = "VIRTUAL_ENV" =>
                /\ environment \in envs
                /\ log[i].what = PathJoin(PathJoin(PYENV_ROOT, "versions"),
                                          PyenvGlobal \o "/envs/" \o environment)
        /\ (\E i \in DOMAIN log : log[i].kind = "fail" /\ log[i].what = "Cannot find environment.")
            => environment \notin envs

====
